---- MODULE Spec2Model ----
(***************************************************************************)
(* Model of generate_openapi.py: the translation of a WordPress REST route *)
(* discovery mapping into the `paths` of an OpenAPI document.              *)
(*                                                                         *)
(* Python strings are sequences of one-character strings.  JSON values are *)
(* tagged records.  A Python dict is a sequence of key/value entries with  *)
(* distinct keys (insertion order is iteration order); the dicts the       *)
(* generator builds and only indexes (a PathItem, `paths`) are functions.  *)
(***************************************************************************)
EXTENDS Integers, Sequences, FiniteSets, TLC

VARIABLES pc, seen, paths, path, path_item

vars == <<pc, seen, paths, path, path_item>>

-----------------------------------------------------------------------------
(* JSON values *)

JNull == [t |-> "null"]
JBool(b) == [t |-> "bool", b |-> b]
JNum(n) == [t |-> "num", n |-> n]
JStr(s) == [t |-> "str", s |-> s]
JList(l) == [t |-> "list", l |-> l]
JDict(d) == [t |-> "dict", d |-> d]

KV(k, v) == [k |-> k, v |-> v]

IsDict(x) == x.t = "dict"
IsList(x) == x.t = "list"

\* `k in d` for a dict d
HasKey(x, k) == \E i \in DOMAIN x.d : x.d[i].k = k

\* d.get(k, default) for a dict d
DictGet(x, k, default) ==
    IF HasKey(x, k)
    THEN x.d[CHOOSE i \in DOMAIN x.d : x.d[i].k = k].v
    ELSE default

\* What `for item in x` yields: the elements of a list, the keys of a dict,
\* the characters of a string; None, numbers and booleans raise TypeError.
IterOk(x) == x.t \in {"list", "dict", "str"}

IterItems(x) ==
    CASE x.t = "list" -> x.l
      [] x.t = "dict" -> [i \in DOMAIN x.d |-> JStr(x.d[i].k)]
      [] x.t = "str" -> [i \in DOMAIN x.s |-> JStr(<<x.s[i]>>)]
      [] OTHER -> <<>>

-----------------------------------------------------------------------------
(* Strings *)

\* The least j >= from with s[j] = c, or 0
IndexOf(s, c, from) ==
    IF \E j \in from..Len(s) : s[j] = c
    THEN CHOOSE j \in from..Len(s) : s[j] = c /\ \A h \in from..(j - 1) : s[h] # c
    ELSE 0

StartsWithAt(s, i, lit) ==
    /\ i + Len(lit) - 1 <= Len(s)
    /\ SubSeq(s, i, i + Len(lit) - 1) = lit

\* str.replace(old, new): every non-overlapping occurrence, left to right
RECURSIVE StrReplace(_, _, _)
StrReplace(s, old, new) ==
    IF Len(s) < Len(old) THEN s
    ELSE IF StartsWithAt(s, 1, old)
         THEN new \o StrReplace(SubSeq(s, Len(old) + 1, Len(s)), old, new)
         ELSE <<Head(s)>> \o StrReplace(Tail(s), old, new)

LowerChar(c) ==
    CASE c = "G" -> "g" [] c = "E" -> "e" [] c = "T" -> "t"
      [] c = "P" -> "p" [] c = "O" -> "o" [] c = "S" -> "s"
      [] OTHER -> c

UpperChar(c) ==
    CASE c = "g" -> "G" [] c = "e" -> "E" [] c = "t" -> "T"
      [] c = "p" -> "P" [] c = "o" -> "O" [] c = "s" -> "S"
      [] OTHER -> c

StrLower(s) == [i \in DOMAIN s |-> LowerChar(s[i])]
StrUpper(s) == [i \in DOMAIN s |-> UpperChar(s[i])]

-----------------------------------------------------------------------------
(* The regular expressions of the path translation *)

NsPrefix == <<"/", "w", "p", "/", "v", "2">>
GroupOpen == <<"(", "?", "P", "<">>
DigitBody == <<"[", "\\", "d", "]", "+", ")">>

\* A match is [end |-> index of its last character, name |-> group 1];
\* end = 0 is no match.
NoMatch == [end |-> 0, name |-> <<>>]

\* \(\?P<([^>]+)>\[\\d\]\+\)  anchored at i: the name runs to the first `>`
NumericGroupAt(s, i) ==
    IF ~StartsWithAt(s, i, GroupOpen) THEN NoMatch
    ELSE LET j == IndexOf(s, ">", i + 4) IN
         IF j >= i + 5 /\ StartsWithAt(s, j + 1, DigitBody)
         THEN [end |-> j + 6, name |-> SubSeq(s, i + 4, j - 1)]
         ELSE NoMatch

\* \(\?P<([^>]+)>[^)]+\)  anchored at i: the body runs to the first `)`
GenericGroupAt(s, i) ==
    IF ~StartsWithAt(s, i, GroupOpen) THEN NoMatch
    ELSE LET j == IndexOf(s, ">", i + 4) IN
         IF j < i + 5 THEN NoMatch
         ELSE LET k == IndexOf(s, ")", j + 1) IN
              IF k >= j + 2
              THEN [end |-> k, name |-> SubSeq(s, i + 4, j - 1)]
              ELSE NoMatch

\* {([^}]+)}  anchored at i: the name runs to the first `}`
BraceAt(s, i) ==
    IF i > Len(s) \/ s[i] # "{" THEN NoMatch
    ELSE LET k == IndexOf(s, "}", i + 1) IN
         IF k >= i + 2
         THEN [end |-> k, name |-> SubSeq(s, i + 1, k - 1)]
         ELSE NoMatch

\* The replacement template r'/{{\1}}': the braces are literal, both of them
Template(name) == <<"/", "{", "{">> \o name \o <<"}", "}">>

\* re.sub(numeric group pattern, template, s): leftmost non-overlapping matches
RECURSIVE SubNumericFrom(_, _)
SubNumericFrom(s, i) ==
    IF i > Len(s) THEN <<>>
    ELSE LET m == NumericGroupAt(s, i) IN
         IF m.end # 0
         THEN Template(m.name) \o SubNumericFrom(s, m.end + 1)
         ELSE <<s[i]>> \o SubNumericFrom(s, i + 1)

\* re.sub(generic group pattern, template, s)
RECURSIVE SubGenericFrom(_, _)
SubGenericFrom(s, i) ==
    IF i > Len(s) THEN <<>>
    ELSE LET m == GenericGroupAt(s, i) IN
         IF m.end # 0
         THEN Template(m.name) \o SubGenericFrom(s, m.end + 1)
         ELSE <<s[i]>> \o SubGenericFrom(s, i + 1)

\* re.findall(r'{([^}]+)}', s): group 1 of every match, in order, repeats kept
RECURSIVE FindBracesFrom(_, _)
FindBracesFrom(s, i) ==
    IF i > Len(s) THEN <<>>
    ELSE LET m == BraceAt(s, i) IN
         IF m.end # 0
         THEN <<m.name>> \o FindBracesFrom(s, m.end + 1)
         ELSE FindBracesFrom(s, i + 1)

\* EnsureLeadingSlash without the prepended slash
KeepPath(p) == p

EnsureLeadingSlash(p) == IF Len(p) > 0 /\ p[1] = "/" THEN p ELSE <<"/">> \o p

\* The path of a route: namespace strip, the two substitutions, leading slash
TranslatePath(route) ==
    EnsureLeadingSlash(
        SubGenericFrom(SubNumericFrom(StrReplace(route, NsPrefix, <<>>), 1), 1))

PathParams(p) == FindBracesFrom(p, 1)

-----------------------------------------------------------------------------
(* Parameters *)

StrString == <<"s", "t", "r", "i", "n", "g">>
PathParamPrefix ==
    <<"P", "a", "t", "h", " ", "p", "a", "r", "a", "m", "e", "t", "e", "r", ":", " ">>

K_type == <<"t", "y", "p", "e">>
K_enum == <<"e", "n", "u", "m">>
K_required == <<"r", "e", "q", "u", "i", "r", "e", "d">>
K_description == <<"d", "e", "s", "c", "r", "i", "p", "t", "i", "o", "n">>
K_endpoints == <<"e", "n", "d", "p", "o", "i", "n", "t", "s">>
K_methods == <<"m", "e", "t", "h", "o", "d", "s">>
K_args == <<"a", "r", "g", "s">>

PathParameter(param_name) ==
    [name |-> param_name,
     in |-> "path",
     required |-> JBool(TRUE),
     schema |-> [type |-> JStr(StrString)],
     description |-> JStr(PathParamPrefix \o param_name)]

DefaultParameter(arg_name) ==
    [name |-> arg_name,
     in |-> "query",
     required |-> JBool(FALSE),
     schema |-> [type |-> JStr(StrString)],
     description |-> JStr(<<>>)]

\* ParamType without the list case
ParamTypeWhole(arg_details) == DictGet(arg_details, K_type, JStr(StrString))

\* param_type[0] if param_type else 'string', for a list; anything else as it is
ParamType(arg_details) ==
    LET param_type == DictGet(arg_details, K_type, JStr(StrString)) IN
    IF IsList(param_type)
    THEN IF Len(param_type.l) > 0 THEN param_type.l[1] ELSE JStr(StrString)
    ELSE param_type

ParamSchema(arg_details) ==
    IF HasKey(arg_details, K_enum)
    THEN [type |-> ParamType(arg_details), enum |-> DictGet(arg_details, K_enum, JNull)]
    ELSE [type |-> ParamType(arg_details)]

process_arg_details(arg_name, arg_details) ==
    IF IsDict(arg_details)
    THEN [name |-> arg_name,
          in |-> "query",
          required |-> DictGet(arg_details, K_required, JBool(FALSE)),
          schema |-> ParamSchema(arg_details),
          description |-> DictGet(arg_details, K_description, JStr(<<>>))]
    ELSE DefaultParameter(arg_name)

InSeq(x, s) == \E i \in DOMAIN s : s[i] = x

RECURSIVE PathParameters(_)
PathParameters(path_params) ==
    IF path_params = <<>> THEN <<>>
    ELSE <<PathParameter(Head(path_params))>> \o PathParameters(Tail(path_params))

\* for arg_name, arg_details in args.items(): skip the names in path_params
RECURSIVE QueryParameters(_, _)
QueryParameters(entries, path_params) ==
    IF entries = <<>> THEN <<>>
    ELSE LET e == Head(entries) IN
         (IF InSeq(e.k, path_params) THEN <<>>
          ELSE <<process_arg_details(e.k, e.v)>>)
         \o QueryParameters(Tail(entries), path_params)

\* BuildParameters with the declared arguments before the path parameters
BuildParametersArgsFirst(p, endpoint) ==
    LET path_params == PathParams(p)
        args == DictGet(endpoint, K_args, JDict(<<>>))
    IN (IF IsDict(args) THEN QueryParameters(args.d, path_params) ELSE <<>>)
       \o PathParameters(path_params)

\* The parameters of one operation of an endpoint
BuildParameters(p, endpoint) ==
    LET path_params == PathParams(p)
        args == DictGet(endpoint, K_args, JDict(<<>>))
    IN PathParameters(path_params)
       \o (IF IsDict(args) THEN QueryParameters(args.d, path_params) ELSE <<>>)

-----------------------------------------------------------------------------
(* Operations *)

Responses ==
    [c \in {"200", "400", "401", "404"} |->
        CASE c = "200" -> "Successful response"
          [] c = "400" -> "Bad request"
          [] c = "401" -> "Unauthorized"
          [] c = "404" -> "Resource not found"]

\* The Operation stored under `method` (already lower-cased)
Operation(method, p, details, endpoint) ==
    [summary |-> StrUpper(method) \o <<" ">> \o p,
     description |-> DictGet(details, K_description, JStr(<<>>)),
     parameters |-> BuildParameters(p, endpoint),
     responses |-> Responses]

\* d[k] = v on a mapping held as a function
MapPut(f, k, v) == [x \in (DOMAIN f) \cup {k} |-> IF x = k THEN v ELSE f[x]]

\* PutOperation that keeps the operation a method already has
KeepFirstOperation(item, method, op) ==
    IF method \in DOMAIN item THEN item ELSE MapPut(item, method, op)

\* path_item[method] = operation
PutOperation(item, method, op) == MapPut(item, method, op)

\* The result of a loop: the PathItem so far, and whether an exception left it
Loop(raised, item) == [raised |-> raised, item |-> item]

\* for method in endpoint.get('methods', []): a method that is no string
\* raises at method.lower()
RECURSIVE MethodsLoop(_, _, _, _, _)
MethodsLoop(methods, p, details, endpoint, item) ==
    IF methods = <<>> THEN Loop(FALSE, item)
    ELSE LET method == Head(methods) IN
         IF method.t # "str" THEN Loop(TRUE, item)
         ELSE MethodsLoop(Tail(methods), p, details, endpoint,
                          PutOperation(item, StrLower(method.s),
                                       Operation(StrLower(method.s), p, details, endpoint)))

\* for endpoint in details.get('endpoints', []): an endpoint that is no dict
\* raises at endpoint.get, methods that cannot be iterated raise at the for
RECURSIVE EndpointsLoop(_, _, _, _)
EndpointsLoop(endpoints, p, details, item) ==
    IF endpoints = <<>> THEN Loop(FALSE, item)
    ELSE LET endpoint == Head(endpoints) IN
         IF ~IsDict(endpoint) THEN Loop(TRUE, item)
         ELSE LET methods == DictGet(endpoint, K_methods, JList(<<>>)) IN
              IF ~IterOk(methods) THEN Loop(TRUE, item)
              ELSE LET r == MethodsLoop(IterItems(methods), p, details, endpoint, item) IN
                   IF r.raised THEN r
                   ELSE EndpointsLoop(Tail(endpoints), p, details, r.item)

HasEndpoints(details) == IsDict(details) /\ HasKey(details, K_endpoints)

\* The PathItem one route builds, from the empty one
BuildPathItem(p, details) ==
    IF ~HasEndpoints(details) THEN Loop(FALSE, <<>>)
    ELSE LET endpoints == DictGet(details, K_endpoints, JList(<<>>)) IN
         IF ~IterOk(endpoints) THEN Loop(TRUE, <<>>)
         ELSE EndpointsLoop(IterItems(endpoints), p, details, <<>>)

\* StorePathItem without the test for an empty PathItem
StoreAnyPathItem(ps, p, item) == MapPut(ps, p, item)

\* StorePathItem that updates the PathItem a path already has
MergePathItem(ps, p, item) ==
    IF DOMAIN item = {} THEN ps
    ELSE IF p \notin DOMAIN ps THEN MapPut(ps, p, item)
    ELSE MapPut(ps, p, [m \in (DOMAIN ps[p]) \cup (DOMAIN item) |->
                           IF m \in DOMAIN item THEN item[m] ELSE ps[p][m]])

\* if path_item: openapi_spec["paths"][path] = path_item
StorePathItem(ps, p, item) == IF DOMAIN item # {} THEN MapPut(ps, p, item) ELSE ps

-----------------------------------------------------------------------------
(* Inputs: route patterns *)

MaxRoutes == 2
MaxSegs == 2

R_posts == <<"/", "w", "p", "/", "v", "2", "/", "p">>
R_bare == <<"/", "p">>
R_numeric == <<"/", "w", "p", "/", "v", "2", "/", "p", "/", "(", "?", "P", "<", "i", "d", ">", "[", "\\", "d", "]", "+", ")">>
R_generic == <<"/", "p", "/", "(", "?", "P", "<", "i", "d", ">", "[", "^", "/", "]", "+", ")">>
R_repeat == <<"(", "?", "P", "<", "i", "d", ">", "[", "\\", "d", "]", "+", ")", "/", "(", "?", "P", "<", "c", ">", "[", "^", "/", "]", "+", ")", "/", "(", "?", "P", "<", "i", "d", ">", "[", "\\", "d", "]", "+", ")">>
R_braces == <<"/", "p", "/", "{", "i", "d", "}">>

Routes == {R_posts, R_bare, R_numeric, R_generic, R_repeat, R_braces}

\* /wp/v2/<literal>/(?P<name>BODY)
GroupForm(literal, name, body) ==
    NsPrefix \o <<"/">> \o literal \o <<"/">> \o GroupOpen \o name \o <<">">> \o body \o <<")">>

Literals == {<<"p", "o", "s", "t", "s">>, <<"u", "s", "e", "r", "s">>}
GroupNames == {<<"i", "d">>, <<"u", "s", "e", "r", "_", "i", "d">>}
DigitIdiom == <<"[", "\\", "d", "]", "+">>
GroupBodies == {DigitIdiom, <<"[", "^", "/", "]", "+">>, <<"\\", "d", "+">>}

GroupForms == {GroupForm(l, n, b) : l \in Literals, n \in GroupNames, b \in GroupBodies}

Segments ==
    {NsPrefix, <<"/", "w", "p">>, <<"/", "v", "2">>, <<"/">>, <<"p">>, <<"(", "?", "P", "<", "i", "d", ">", "[", "\\", "d", "]", "+", ")">>, <<"(", "?", "P", "<", "n", ">", "[", "^", "/", "]", "+", ")">>,
     <<"(", "?", "P", "<">>, <<">">>, <<")">>, <<"{", "i", "d", "}">>, <<"{">>}

RECURSIVE Concat(_)
Concat(ss) == IF ss = <<>> THEN <<>> ELSE Head(ss) \o Concat(Tail(ss))

SegmentSeqs == UNION {[1..n -> Segments] : n \in 0..MaxSegs}

Patterns == {Concat(ss) : ss \in SegmentSeqs} \cup GroupForms

-----------------------------------------------------------------------------
(* Inputs: route metadata *)

N_id == <<"i", "d">>
N_context == <<"c", "o", "n", "t", "e", "x", "t">>
N_q == <<"q">>
N_braceid == <<"{", "i", "d">>

S_integer == JStr(<<"i", "n", "t", "e", "g", "e", "r">>)
S_view == JStr(<<"v", "i", "e", "w">>)
S_edit == JStr(<<"e", "d", "i", "t">>)
S_post == JStr(<<"P", "o", "s", "t">>)
S_x == JStr(<<"x">>)

M_GET == JStr(<<"G", "E", "T">>)
M_get == JStr(<<"g", "e", "t">>)
M_POST == JStr(<<"P", "O", "S", "T">>)
K_get == <<"g", "e", "t">>
K_post == <<"p", "o", "s", "t">>

A_required == JDict(<<KV(K_required, JBool(TRUE))>>)
A_context == JDict(<<KV(K_type, JStr(StrString)), KV(K_enum, JList(<<S_view, S_edit>>))>>)
A_types == JDict(<<KV(K_type, JList(<<S_integer, JStr(StrString)>>))>>)

Args_example == JDict(<<KV(N_id, A_required), KV(N_context, A_context)>>)
Args_mixed == JDict(<<KV(N_q, JNull), KV(N_braceid, A_types), KV(N_id, JNum(5))>>)

E_example == JDict(<<KV(K_methods, JList(<<M_GET, M_POST>>)), KV(K_args, Args_example)>>)
E_mixed == JDict(<<KV(K_methods, JList(<<M_get>>)), KV(K_args, Args_mixed)>>)
E_twice == JDict(<<KV(K_methods, JList(<<M_POST, M_POST>>))>>)
E_args_null == JDict(<<KV(K_methods, JList(<<M_GET>>)), KV(K_args, JNull)>>)
E_no_methods == JDict(<<KV(K_args, Args_example)>>)
E_methods_null == JDict(<<KV(K_methods, JNull)>>)
E_method_number == JDict(<<KV(K_methods, JList(<<M_GET, JNum(5)>>))>>)

D_example == JDict(<<KV(K_description, S_post), KV(K_endpoints, JList(<<E_example>>))>>)
D_overwrite == JDict(<<KV(K_endpoints, JList(<<E_example, E_mixed>>))>>)
D_twice == JDict(<<KV(K_endpoints, JList(<<E_twice>>))>>)
D_args_null == JDict(<<KV(K_endpoints, JList(<<E_args_null>>))>>)
D_no_methods == JDict(<<KV(K_endpoints, JList(<<E_no_methods>>))>>)
D_no_endpoints == JDict(<<KV(K_description, S_post)>>)
D_empty == JDict(<<KV(K_endpoints, JList(<<>>))>>)
D_endpoints_null == JDict(<<KV(K_endpoints, JNull)>>)
D_endpoints_number == JDict(<<KV(K_endpoints, JNum(5))>>)
D_endpoint_string == JDict(<<KV(K_endpoints, JList(<<S_x>>))>>)
D_methods_null == JDict(<<KV(K_endpoints, JList(<<E_mixed, E_methods_null>>))>>)
D_method_number == JDict(<<KV(K_endpoints, JList(<<E_method_number>>))>>)

Details ==
    {JNull, S_x, D_no_endpoints, D_empty, D_no_methods,
     D_example, D_overwrite, D_twice, D_args_null,
     D_endpoints_null, D_endpoints_number, D_endpoint_string,
     D_methods_null, D_method_number}

\* The metadata the path translation is exercised with
PathDetails == {D_example}

\* ArgSpecs: every combination of present and absent keys, and the non-mappings
TypeOpts ==
    {<<>>, <<KV(K_type, S_integer)>>, <<KV(K_type, JNull)>>, <<KV(K_type, JList(<<>>))>>,
     <<KV(K_type, JList(<<S_integer, JStr(StrString)>>))>>}
EnumOpts == {<<>>, <<KV(K_enum, JList(<<S_view, S_edit>>))>>, <<KV(K_enum, JNull)>>}
RequiredOpts == {<<>>, <<KV(K_required, JBool(TRUE))>>}
DescriptionOpts == {<<>>, <<KV(K_description, S_post)>>}

ArgSpecs ==
    {JDict(a \o b \o c \o d) :
        a \in TypeOpts, b \in EnumOpts, c \in RequiredOpts, d \in DescriptionOpts}
    \cup {JNull, JBool(TRUE), JNum(5), S_x, JList(<<S_integer>>)}

ArgNames == {N_id, N_q}

\* A route with one GET endpoint that declares the one argument
ArgDetails(arg_name, arg_details) ==
    JDict(<<KV(K_endpoints,
               JList(<<JDict(<<KV(K_methods, JList(<<M_GET>>)),
                              KV(K_args, JDict(<<KV(arg_name, arg_details)>>))>>)>>))>>)

-----------------------------------------------------------------------------
(* The generator *)

Entry(route, details) == [route |-> route, details |-> details]

SeenRoutes == {seen[i].route : i \in DOMAIN seen}

Init ==
    /\ pc = "loop"
    /\ seen = <<>>
    /\ paths = <<>>
    /\ path = <<>>
    /\ path_item = <<>>

\* One iteration of `for route, details in routes.items()`
ProcessRoute(route, details) ==
    /\ pc = "loop"
    /\ route \notin SeenRoutes
    /\ LET p == TranslatePath(route)
           r == BuildPathItem(p, details)
       IN /\ seen' = Append(seen, Entry(route, details))
          /\ path' = p
          /\ path_item' = r.item
          /\ IF r.raised
             THEN pc' = "raised" /\ paths' = paths
             ELSE pc' = "loop" /\ paths' = StorePathItem(paths, p, r.item)

\* return openapi_spec, once the items are exhausted
Return ==
    /\ pc = "loop"
    /\ pc' = "returned"
    /\ UNCHANGED <<seen, paths, path, path_item>>


\* The generator over every mapping of at most MaxRoutes routes
Step == \E r \in Routes, d \in Details : Len(seen) < MaxRoutes /\ ProcessRoute(r, d)

Next == Step \/ Return

Spec == Init /\ [][Next]_vars

\* The generator over one route, of every pattern
PathStep == \E r \in Patterns, d \in PathDetails : seen = <<>> /\ ProcessRoute(r, d)

NextPath == PathStep \/ Return

SpecPath == Init /\ [][NextPath]_vars

\* The generator over one route with one declared argument, of every ArgSpec
ArgStep ==
    \E n \in ArgNames, a \in ArgSpecs : seen = <<>> /\ ProcessRoute(R_bare, ArgDetails(n, a))

NextArg == ArgStep \/ Return

SpecArg == Init /\ [][NextArg]_vars

-----------------------------------------------------------------------------
(* Vocabulary of the properties *)

\* The route of the latest iteration, and whether that iteration ran to its end
Last == seen[Len(seen)]
Completed == seen # <<>> /\ pc # "raised"

\* The routes whose iteration ran to its end
Done == {i \in DOMAIN seen : i < Len(seen) \/ pc # "raised"}

EndpointsOf(details) == IterItems(DictGet(details, K_endpoints, JList(<<>>)))
MethodsOf(endpoint) == IterItems(DictGet(endpoint, K_methods, JList(<<>>)))

\* The endpoint lists the method whose lower-case form is m
Lists(endpoint, m) ==
    \E j \in DOMAIN MethodsOf(endpoint) :
        MethodsOf(endpoint)[j].t = "str" /\ StrLower(MethodsOf(endpoint)[j].s) = m

\* The last endpoint, in iteration order, that lists m
LastListing(details, m) ==
    LET eps == EndpointsOf(details)
        i == CHOOSE i \in DOMAIN eps :
                 Lists(eps[i], m) /\ \A j \in DOMAIN eps : j > i => ~Lists(eps[j], m)
    IN eps[i]

ListsNoMethods(details) ==
    \A i \in DOMAIN EndpointsOf(details) : MethodsOf(EndpointsOf(details)[i]) = <<>>

\* The names an endpoint declares, in the order of its `args` mapping
ArgKeys(endpoint) ==
    LET a == DictGet(endpoint, K_args, JDict(<<>>))
    IN IF IsDict(a) THEN [i \in DOMAIN a.d |-> a.d[i].k] ELSE <<>>

NamesOf(ps) == [i \in DOMAIN ps |-> ps[i].name]
PathNames(ps) == NamesOf(SelectSeq(ps, LAMBDA x : x.in = "path"))
QueryNames(ps) == NamesOf(SelectSeq(ps, LAMBDA x : x.in = "query"))
CountNamed(ps, n) == Cardinality({i \in DOMAIN ps : ps[i].name = n})

\* The pattern holds a named capture group called n
HasGroup(route, n) ==
    \E i \in DOMAIN route : GenericGroupAt(route, i).end # 0 /\ GenericGroupAt(route, i).name = n

Placeholder(n) == <<"{">> \o n \o <<"}">>

\* The placeholders of the names occur in p from left to right, in this order
RECURSIVE OccurInOrder(_, _, _)
OccurInOrder(names, p, from) ==
    IF names = <<>> THEN TRUE
    ELSE \E q \in from..Len(p) :
            /\ StartsWithAt(p, q, Placeholder(Head(names)))
            /\ OccurInOrder(Tail(names), p, q + 1)

-----------------------------------------------------------------------------
(* Properties *)

\* C1: a route /wp/v2/<literal>/(?P<name>BODY) gets the path key
\* /<literal>/{name}, and the path parameters of its operations are [name].
C1_GroupRoutePath ==
    \A l \in Literals, n \in GroupNames, b \in GroupBodies :
        (Completed /\ Last.route = GroupForm(l, n, b)) =>
            /\ path = <<"/">> \o l \o <<"/">> \o Placeholder(n)
            /\ DOMAIN paths = {<<"/">> \o l \o <<"/">> \o Placeholder(n)}
            /\ \A m \in DOMAIN path_item : PathNames(path_item[m].parameters) = <<n>>

\* C2: when the route has a capture group called n and the endpoint declares
\* an argument called n, the operation has exactly one parameter named n, and
\* it is a path parameter.
C2_PathParameterWins ==
    Completed =>
        \A m \in DOMAIN path_item :
            LET ps == path_item[m].parameters
                keys == ArgKeys(LastListing(Last.details, m))
            IN \A k \in DOMAIN keys :
                   HasGroup(Last.route, keys[k]) =>
                       /\ CountNamed(ps, keys[k]) = 1
                       /\ \A i \in DOMAIN ps : ps[i].name = keys[k] => ps[i].in = "path"

\* C3: no two parameters of an operation have the same name.
C3_UniqueNames ==
    /\ \A m \in DOMAIN path_item :
           \A i, j \in DOMAIN path_item[m].parameters :
               i # j => path_item[m].parameters[i].name # path_item[m].parameters[j].name
    /\ \A k \in DOMAIN paths : \A m \in DOMAIN paths[k] :
           \A i, j \in DOMAIN paths[k][m].parameters :
               i # j => paths[k][m].parameters[i].name # paths[k][m].parameters[j].name

\* C4: whatever JSON the routes mapping holds, the generator does not raise.
C4_NeverRaises == pc # "raised"

\* C5: every PathItem in `paths` is non-empty and stored under the path of a
\* processed route that has `endpoints` and produced an operation; a route
\* without `endpoints`, or whose endpoints list no methods, leaves `paths` as
\* it was.
C5_Stored ==
    \A k \in DOMAIN paths :
        /\ DOMAIN paths[k] # {}
        /\ \E i \in Done :
               /\ TranslatePath(seen[i].route) = k
               /\ HasEndpoints(seen[i].details)
               /\ \E e \in DOMAIN EndpointsOf(seen[i].details) :
                      MethodsOf(EndpointsOf(seen[i].details)[e]) # <<>>

C5_Skipped ==
    (seen' # seen /\ (~HasEndpoints(seen'[Len(seen')].details)
                      \/ (pc' # "raised" /\ ListsNoMethods(seen'[Len(seen')].details))))
        => paths' = paths

C5_OnlyProducingRoutes == []C5_Stored /\ [][C5_Skipped]_vars

C5_Witness ==
    /\ Len(seen) = 2
    /\ pc = "loop"
    /\ seen[1].details = D_example
    /\ seen[2].details = D_no_methods
    /\ TranslatePath(seen[2].route) # TranslatePath(seen[1].route)
    /\ DOMAIN paths = {TranslatePath(seen[1].route)}

\* C6: the translated path of every route pattern, and so every key of
\* `paths`, begins with a slash.
C6_LeadingSlash ==
    /\ seen # <<>> => (Len(path) > 0 /\ Head(path) = "/")
    /\ \A k \in DOMAIN paths : Len(k) > 0 /\ Head(k) = "/"

C6_Witness ==
    /\ pc = "returned"
    /\ seen # <<>>
    /\ Last.route = NsPrefix
    /\ DOMAIN paths = {<<"/">>}

\* C7: the Parameter of a declared argument is a query parameter of that name
\* whose type, enum, required and description are those of the ArgSpec, with
\* the defaults for what is absent and for an ArgSpec that is no mapping.
C7_QueryParameter ==
    Completed =>
        LET arg == DictGet(EndpointsOf(Last.details)[1], K_args, JNull).d[1]
            spec == arg.v
            ps == path_item[K_get].parameters
            ty == DictGet(spec, K_type, JNull)
        IN /\ Len(ps) = 1
           /\ ps[1].name = arg.k
           /\ ps[1].in = "query"
           /\ IF spec.t = "dict"
              THEN /\ ps[1].schema.type =
                          (IF ~HasKey(spec, K_type) THEN JStr(StrString)
                           ELSE IF ty.t # "list" THEN ty
                           ELSE IF ty.l = <<>> THEN JStr(StrString)
                           ELSE Head(ty.l))
                   /\ ("enum" \in DOMAIN ps[1].schema) <=> HasKey(spec, K_enum)
                   /\ HasKey(spec, K_enum) =>
                          ps[1].schema.enum = DictGet(spec, K_enum, JNull)
                   /\ ps[1].required =
                          (IF HasKey(spec, K_required) THEN DictGet(spec, K_required, JNull)
                           ELSE JBool(FALSE))
                   /\ ps[1].description =
                          (IF HasKey(spec, K_description)
                           THEN DictGet(spec, K_description, JNull)
                           ELSE JStr(<<>>))
              ELSE /\ ps[1].schema = [type |-> JStr(StrString)]
                   /\ ps[1].required = JBool(FALSE)
                   /\ ps[1].description = JStr(<<>>)

C7_Witness ==
    /\ Completed
    /\ LET spec == DictGet(EndpointsOf(Last.details)[1], K_args, JNull).d[1].v
       IN /\ spec.t = "dict"
          /\ DictGet(spec, K_type, JNull) = JList(<<S_integer, JStr(StrString)>>)
          /\ HasKey(spec, K_enum)
          /\ ~HasKey(spec, K_required)
    /\ path_item[K_get].parameters[1].schema.type = S_integer

\* C8: a method listed more than once in a route has one operation, under
\* its lower-case key, and it is the operation of the last endpoint that
\* lists it, with that endpoint's arguments only.
C8_LastEndpointWins ==
    Completed =>
        /\ \A m \in DOMAIN path_item :
               /\ m = StrLower(m)
               /\ LET ep == LastListing(Last.details, m)
                      ps == path_item[m].parameters
                  IN /\ path_item[m] = Operation(m, path, Last.details, ep)
                     /\ \A i \in DOMAIN ps :
                            ps[i].in = "query" => InSeq(ps[i].name, ArgKeys(ep))
        /\ HasEndpoints(Last.details) =>
               \A e \in DOMAIN EndpointsOf(Last.details) :
                   \A j \in DOMAIN MethodsOf(EndpointsOf(Last.details)[e]) :
                       StrLower(MethodsOf(EndpointsOf(Last.details)[e])[j].s)
                           \in DOMAIN path_item

C8_Witness ==
    /\ Completed
    /\ Last.details = D_overwrite
    /\ DOMAIN path_item = {K_get, K_post}
    /\ QueryNames(path_item[K_get].parameters) = <<N_q, N_braceid, N_id>>
    /\ QueryNames(path_item[K_post].parameters) = <<N_id, N_context>>

\* C9: the parameters of an operation are its path parameters, in the order
\* of their placeholders in the path, then its query parameters, in the order
\* of the endpoint's `args` without the names of the path parameters.
C9_PathThenQuery ==
    Completed =>
        \A m \in DOMAIN path_item :
            LET ps == path_item[m].parameters
                keys == ArgKeys(LastListing(Last.details, m))
            IN /\ \A i \in DOMAIN ps : ps[i].in \in {"path", "query"}
               /\ \A i, j \in DOMAIN ps :
                      (ps[i].in = "query" /\ ps[j].in = "path") => j < i
               /\ OccurInOrder(PathNames(ps), path, 1)
               /\ QueryNames(ps) =
                      SelectSeq(keys, LAMBDA k : ~InSeq(k, PathNames(ps)))

C9_Witness ==
    /\ Completed
    /\ Last.route = R_repeat
    /\ Last.details = D_overwrite
    /\ NamesOf(path_item[K_get].parameters) = <<N_braceid, <<"{", "c">>, N_braceid, N_q, N_id>>
    /\ path_item[K_get].parameters[3].in = "path"
    /\ path_item[K_get].parameters[4].in = "query"

\* C10: of the routes that translate to one path, the entry of `paths` is the
\* whole PathItem of the last one that produced an operation, and nothing of
\* the earlier ones.
C10_Step ==
    (seen' # seen /\ pc' # "raised") =>
        IF DOMAIN path_item' = {} THEN paths' = paths
        ELSE /\ DOMAIN paths' = (DOMAIN paths) \cup {path'}
             /\ paths'[path'] = path_item'
             /\ \A k \in (DOMAIN paths) \ {path'} : paths'[k] = paths[k]

C10_LastRouteWins == [][C10_Step]_vars

C10_Witness ==
    /\ Len(seen) = 2
    /\ pc = "returned"
    /\ seen[1].route = R_posts /\ seen[1].details = D_example
    /\ seen[2].route = R_bare /\ seen[2].details = D_args_null
    /\ DOMAIN paths = {R_bare}
    /\ DOMAIN paths[R_bare] = {K_get}
    /\ paths[R_bare][K_get].parameters = <<>>

====
